---- MODULE Spec2Model ----
(***************************************************************************)
(* AggregatedProfiles (dalex/dataset_level/_aggregated_profiles/object.py) *)
(* as a state machine: two AggregatedProfiles objects, the operations fit  *)
(* and plot, and the record of the last call with what it gave back.       *)
(*                                                                         *)
(* Values.  A feature value is an integer (a categorical level is its      *)
(* level code).  A mean is kept exact, as the reduced fraction n/d.        *)
(* Python's None is a value of the same shape with none = TRUE.            *)
(***************************************************************************)
EXTENDS Integers, Sequences, FiniteSets, TLC

VARIABLES
    objs,   \* objs[o]: the fields of AggregatedProfiles object o
    fitted, \* fitted[o]: the argument of the last fit of o that returned (history)
    last    \* the call the caller has just made: its arguments, how it ended,
            \* what it showed and returned; NoCall between calls.  repeat (history)
            \* says that a fit was given the argument of the fit that returned before

vars == <<objs, fitted, last>>

(***************************************************************************)
(* Bounds                                                                  *)
(***************************************************************************)
\* longest list/tuple handed to fit
MaxList == 2

(***************************************************************************)
(* The data the callers hold: two fitted CeterisParibus containers and an  *)
(* object of another class.                                                *)
(***************************************************************************)
Objs == {"ap1", "ap2"}

Containers == {"cp1", "cp2"}

\* an object that is not a CeterisParibus (nor an AggregatedProfiles)
NotAProfile == "df"

\* the variables profiled by the containers, and the column dtypes
Features == {"a", "b", "c"}

NumericColumns == {"a", "b"}

\* the grid of values a variable is moved over
Grid(v) == IF v = "c" THEN {1, 2} ELSE {0, 1}

\* the model whose predictions the containers hold
Predict(a, b, c) == 1 + 3 * a + b + 4 * a * b + 2 * (c - 1)

\* the observations: columns a, b, c and the grouping column g
Observation(i) ==
    CASE i = 1 -> [ids |-> 1, a |-> 0, b |-> 1, c |-> 1, g |-> 1]
      [] i = 2 -> [ids |-> 2, a |-> 1, b |-> 0, c |-> 2, g |-> 2]
      [] OTHER -> [ids |-> 3, a |-> 1, b |-> 1, c |-> 1, g |-> 1]

\* the observations a container was computed for, in table order
ObservationIds(cp) == IF cp = "cp1" THEN <<1, 2>> ELSE <<3>>

\* the profile steps of one observation, in table order
Steps == << <<"a", 0>>, <<"a", 1>>, <<"b", 0>>, <<"b", 1>>, <<"c", 1>>, <<"c", 2>> >>

\* CeterisParibus.new_observation: one row per observation with its prediction
NewObservation(cp) ==
    [k \in 1..Len(ObservationIds(cp)) |->
        LET ob == Observation(ObservationIds(cp)[k])
        IN  [ids |-> ob.ids, a |-> ob.a, b |-> ob.b, c |-> ob.c, g |-> ob.g,
             yhat |-> Predict(ob.a, ob.b, ob.c), label |-> "rf"]]

\* CeterisParibus.result: per observation and variable, the prediction with
\* that variable moved over its grid and the others held fixed
ProfileRow(ob, v, x) ==
    LET a == IF v = "a" THEN x ELSE ob.a
        b == IF v = "b" THEN x ELSE ob.b
        c == IF v = "c" THEN x ELSE ob.c
    IN  [ids |-> ob.ids, vname |-> v, a |-> a, b |-> b, c |-> c, g |-> ob.g,
         yhat |-> Predict(a, b, c), label |-> "rf"]

CPResult(cp) ==
    [k \in 1..(Len(ObservationIds(cp)) * Len(Steps)) |->
        LET ob == Observation(ObservationIds(cp)[((k - 1) \div Len(Steps)) + 1])
            st == Steps[((k - 1) % Len(Steps)) + 1]
        IN  ProfileRow(ob, st[1], st[2])]

(***************************************************************************)
(* None and the exact mean                                                 *)
(***************************************************************************)
NoTable == [none |-> TRUE, rows |-> {}, numeric |-> FALSE]

NoMean == [none |-> TRUE, n |-> 0, d |-> 1]

NoProfiles == "None"

NoNames == [none |-> TRUE, names |-> {}]

Names(S) == [none |-> FALSE, names |-> S]

RECURSIVE Gcd(_, _)
Gcd(m, n) == IF n = 0 THEN m ELSE Gcd(n, m % n)

RECURSIVE SumYhat(_)
SumYhat(s) == IF s = <<>> THEN 0 ELSE Head(s).yhat + SumYhat(Tail(s))

\* pandas' Series.mean of the _yhat_ column of a non-empty table
MeanYhat(s) ==
    LET n == SumYhat(s)
        d == Len(s)
        k == Gcd(IF n < 0 THEN -n ELSE n, d)
    IN  [none |-> FALSE, n |-> n \div k, d |-> d \div k]

(***************************************************************************)
(* Construction (lines 68-90)                                              *)
(***************************************************************************)
\* check_variables / check_groups: None stays None, a single name becomes a
\* one-element collection, a collection of names is kept
CheckNames(arg) ==
    IF arg.kind = "none" THEN NoNames ELSE Names({arg.items[k] : k \in DOMAIN arg.items})

NoArg == [kind |-> "none", items |-> <<>>]

Str(s) == [kind |-> "str", items |-> <<s>>]

Object(x) == [kind |-> "object", items |-> <<x>>]

List(items) == [kind |-> "list", items |-> items]

\* __init__: the configuration as given, the three result fields None
New(type, variables, variable_type, groups, span, center, random_state) ==
    [variable_type   |-> variable_type,
     groups          |-> CheckNames(groups),
     type            |-> type,
     variables       |-> CheckNames(variables),
     span            |-> span,
     center          |-> center,
     result          |-> NoTable,
     mean_prediction |-> NoMean,
     raw_profiles    |-> NoProfiles,
     random_state    |-> random_state]

\* the configuration fields of an object
Config(self) ==
    [type |-> self.type, variables |-> self.variables,
     variable_type |-> self.variable_type, groups |-> self.groups,
     span |-> self.span, center |-> self.center,
     random_state |-> self.random_state]

\* the constructor calls the callers make; span is in hundredths (0.25 is the
\* default), random_state None is "None"
ConstructorCalls ==
    { New("partial", NoArg, "numerical", NoArg, 25, TRUE, "None"),
      New("partial", List(<<"b", "c", "z">>), "categorical", NoArg, 25, TRUE, "None"),
      New("partial", Str("a"), "categorical", Str("g"), 25, TRUE, "None"),
      New("partial", NoArg, "numerical", Str("g"), 25, TRUE, "None"),
      New("accumulated", Str("a"), "numerical", NoArg, 50, FALSE, "None"),
      New("conditional", NoArg, "categorical", NoArg, 25, TRUE, "None") }

(***************************************************************************)
(* fit (lines 92-141)                                                      *)
(***************************************************************************)
IsCeterisParibus(e) == e \in Containers

NothingGathered ==
    [raised |-> FALSE, none |-> TRUE, profiles |-> <<>>, observations |-> <<>>]


\* a variant of the loop that passes over an element of another class
RECURSIVE ConcatLoopSkipping(_, _)
ConcatLoopSkipping(items, acc) ==
    IF items = <<>> THEN acc
    ELSE IF ~IsCeterisParibus(Head(items)) THEN ConcatLoopSkipping(Tail(items), acc)
    ELSE ConcatLoopSkipping(Tail(items),
                    [raised       |-> FALSE,
                     none         |-> FALSE,
                     profiles     |-> acc.profiles \o CPResult(Head(items)),
                     observations |-> acc.observations \o NewObservation(Head(items))])

\* lines 120-124: the loop over a list/tuple, left by the raise at the first
\* element that is not a container
RECURSIVE ConcatLoop(_, _)
ConcatLoop(items, acc) ==
    IF items = <<>> THEN acc
    ELSE IF ~IsCeterisParibus(Head(items)) THEN [acc EXCEPT !.raised = TRUE]
    ELSE ConcatLoop(Tail(items),
                    [raised       |-> FALSE,
                     none         |-> FALSE,
                     profiles     |-> acc.profiles \o CPResult(Head(items)),
                     observations |-> acc.observations \o NewObservation(Head(items))])

\* lines 112-127: all_profiles and all_observations, or the TypeError
Gather(ceteris_paribus) ==
    CASE ceteris_paribus.kind = "object" /\ IsCeterisParibus(ceteris_paribus.items[1]) ->
            [raised       |-> FALSE,
             none         |-> FALSE,
             profiles     |-> CPResult(ceteris_paribus.items[1]),
             observations |-> NewObservation(ceteris_paribus.items[1])]
      [] ceteris_paribus.kind = "list" ->
            ConcatLoop(ceteris_paribus.items, NothingGathered)
      [] OTHER -> [NothingGathered EXCEPT !.raised = TRUE]


\* a variant that clears raw_profiles on entering the list/tuple branch
RawProfilesClearedForList(self, ceteris_paribus) ==
    IF ceteris_paribus.kind = "object" /\ IsCeterisParibus(ceteris_paribus.items[1])
    THEN ceteris_paribus.items[1]
    ELSE IF ceteris_paribus.kind = "list" THEN NoProfiles
    ELSE self.raw_profiles

\* line 115 is the only write of raw_profiles: the single-container branch
\* stores a deep copy, the list/tuple branch and the else branch store nothing
RawProfilesAfterGather(self, ceteris_paribus) ==
    IF ceteris_paribus.kind = "object" /\ IsCeterisParibus(ceteris_paribus.items[1])
    THEN ceteris_paribus.items[1]
    ELSE self.raw_profiles

\* prepare_all_variables: the variables of the profiles, met with the
\* requested ones when some were requested
PrepareAllVariables(all_profiles, variables) ==
    LET available == {all_profiles[k].vname : k \in DOMAIN all_profiles}
    IN  IF variables.none THEN available ELSE available \cap variables.names

\* prepare_numerical_categorical: of those, the ones of the configured kind
PrepareNumericalCategorical(all_variables, variable_type) ==
    {v \in all_variables : (v \in NumericColumns) <=> (variable_type = "numerical")}


\* a variant that keeps every row
SelectEverything(all_profiles, vnames) == all_profiles

\* line 134: only the rows of the suitable variables
SelectSuitable(all_profiles, vnames) ==
    SelectSeq(all_profiles, LAMBDA r : r.vname \in vnames)

\* the value of the column a row's _vname_ names
ColumnOf(r) ==
    CASE r.vname = "a" -> r.a
      [] r.vname = "b" -> r.b
      [] OTHER -> r.c

\* create_x: the column _x_ holds, per row, the value of the profiled variable
CreateX(all_profiles) ==
    [k \in DOMAIN all_profiles |->
        LET r == all_profiles[k]
        IN  [ids |-> r.ids, vname |-> r.vname, x |-> ColumnOf(r), g |-> r.g,
             yhat |-> r.yhat, label |-> r.label]]

\* the values of the grouping columns of a row
GroupOf(r, groups) == IF groups.none THEN <<>> ELSE <<r.g>>

\* aggregate_profiles: one row per (variable, label, value, group) bucket.
\* partial: the mean prediction of the bucket.  accumulated and conditional
\* are kept as the term of what they are computed from: the mode, the span,
\* the centering flag and the rows of the bucket's variable, label and group.
AggregateProfiles(all_profiles, type, groups, center, span) ==
    LET key(r) == [vname |-> r.vname, label |-> r.label, x |-> r.x,
                   groups |-> GroupOf(r, groups)]
        keys == {key(all_profiles[k]) : k \in DOMAIN all_profiles}
        bucket(q) == SelectSeq(all_profiles, LAMBDA r : key(r) = q)
        curve(q) == SelectSeq(all_profiles,
                              LAMBDA r : /\ r.vname = q.vname
                                         /\ r.label = q.label
                                         /\ GroupOf(r, groups) = q.groups)
        term(q) == [agg |-> type, span |-> span, center |-> center,
                    over |-> [k \in DOMAIN curve(q) |->
                                 <<curve(q)[k].ids, curve(q)[k].x, curve(q)[k].yhat>>]]
    IN  {[vname |-> q.vname, label |-> q.label, x |-> q.x, groups |-> q.groups,
          yhat |-> IF type = "partial" THEN MeanYhat(bucket(q)) ELSE term(q)]
         : q \in keys}


\* a variant that averages the profile table instead of the observations
MeanOfProfiles(all_profiles, all_observations) == MeanYhat(all_profiles)

\* line 141: the mean of _yhat_ over the concatenated observation tables
MeanPrediction(all_profiles, all_observations) == MeanYhat(all_observations)


\* a variant that also stores the variables of the result in the configuration
FitWritesVariables(self, result, mean_prediction, raw_profiles) ==
    [self EXCEPT !.result = result,
                 !.mean_prediction = mean_prediction,
                 !.raw_profiles = raw_profiles,
                 !.variables = Names({r.vname : r \in result.rows})]

\* lines 115, 138, 141: the fields fit assigns
FitWrites(self, result, mean_prediction, raw_profiles) ==
    [self EXCEPT !.result = result,
                 !.mean_prediction = mean_prediction,
                 !.raw_profiles = raw_profiles]


\* a variant that keeps the table of an earlier fit
FitResultKept(self, all_profiles) ==
    IF ~self.result.none THEN self.result
    ELSE [none    |-> FALSE,
          rows    |-> AggregateProfiles(
                          CreateX(SelectSuitable(all_profiles,
                              PrepareNumericalCategorical(
                                  PrepareAllVariables(all_profiles, self.variables),
                                  self.variable_type))),
                          self.type, self.groups, self.center, self.span),
          numeric |-> self.variable_type = "numerical"]

\* lines 129-139: the aggregated table of the gathered profiles
FitResult(self, all_profiles) ==
    LET all_variables == PrepareAllVariables(all_profiles, self.variables)
        vnames == PrepareNumericalCategorical(all_variables, self.variable_type)
        suitable == CreateX(SelectSuitable(all_profiles, vnames))
    IN  [none    |-> FALSE,
         rows    |-> AggregateProfiles(suitable, self.type, self.groups,
                                       self.center, self.span),
         numeric |-> self.variable_type = "numerical"]

\* the variables fit aggregates (lines 129-131)
SuitableVariables(self, all_profiles) ==
    PrepareNumericalCategorical(PrepareAllVariables(all_profiles, self.variables),
                                self.variable_type)

(***************************************************************************)
(* plot (lines 143-309), with the cosmetic arguments at their defaults     *)
(***************************************************************************)
NoFigure ==
    [kind |-> "none", facets |-> {}, aggregates |-> {}, raw |-> {},
     rawOf |-> NoProfiles, hovermode |-> "none"]

\* line 196
GeomAccepted(geom) == geom \in {"aggregates", "profiles"}

\* lines 198-199: a single name becomes a one-element tuple; None stays None
VariablesFilter(variables) ==
    IF variables.kind = "none" THEN NoNames
    ELSE Names({variables.items[k] : k \in DOMAIN variables.items})

\* result.assign(_mp_=mean_prediction): the table with the column _mp_ added
AssignMp(ob) ==
    [rows    |-> {[vname |-> r.vname, label |-> r.label, x |-> r.x,
                   groups |-> r.groups, yhat |-> r.yhat, mp |-> ob.mean_prediction]
                  : r \in ob.result.rows},
     numeric |-> ob.result.numeric]

IsAggregatedProfiles(e) == e \in Objs

\* lines 209-212: the loop over `objects`; a table that is None has no assign
RECURSIVE MergeLoop(_, _)
MergeLoop(items, acc) ==
    IF items = <<>> THEN acc
    ELSE IF ~IsAggregatedProfiles(Head(items)) THEN [acc EXCEPT !.status = "TypeError"]
    ELSE IF objs[Head(items)].result.none THEN [acc EXCEPT !.status = "AttributeError"]
    ELSE MergeLoop(Tail(items),
                   [acc EXCEPT !.blocks = Append(@, AssignMp(objs[Head(items)]))])

\* lines 202-212: _result_df as the sequence of the concatenated tables
MergeResults(self, objects) ==
    IF self.result.none THEN [status |-> "AttributeError", blocks |-> <<>>]
    ELSE MergeLoop(IF objects.kind = "none" THEN <<>> ELSE objects.items,
                   [status |-> "ok", blocks |-> <<AssignMp(self)>>])

BlockRows(blocks) == UNION {blocks[k].rows : k \in DOMAIN blocks}


\* a variant that ignores the filter
PlotVariablesUnfiltered(blocks, filter) == {r.vname : r \in BlockRows(blocks)}

\* lines 215-218: the variables of the merged table, met with the filter
PlotVariables(blocks, filter) ==
    LET all_variables == {r.vname : r \in BlockRows(blocks)}
    IN  IF filter.none THEN all_variables ELSE all_variables \cap filter.names

\* line 222: with a filter, only the rows of the variables kept
RestrictRows(blocks, all_variables, filter) ==
    IF filter.none THEN BlockRows(blocks)
    ELSE {r \in BlockRows(blocks) : r.vname \in all_variables}

\* line 229: the concatenated column _x_ is numeric when every table's is
IsXNumeric(blocks) == \A k \in DOMAIN blocks : blocks[k].numeric

\* lines 242 and 266: `geom is 'profiles'` compares identities; `interned`
\* says whether the caller's string is the same object as the literal
OverlayRequested(self, geom, interned) ==
    /\ geom = "profiles"
    /\ interned
    /\ self.raw_profiles # NoProfiles

\* CeterisParibus.plot(variables=...): one curve per observation and variable
RawCurves(cp, variables) ==
    {<<CPResult(cp)[k].ids, CPResult(cp)[k].vname>> :
        k \in {j \in DOMAIN CPResult(cp) : CPResult(cp)[j].vname \in variables}}

\* lines 241-298: the figure
BuildFigure(self, rows, all_variables, numeric, geom, interned) ==
    LET overlay == numeric /\ OverlayRequested(self, geom, interned)
    IN  [kind       |-> IF numeric THEN "line" ELSE "bar",
         facets     |-> all_variables,
         aggregates |-> {<<r.vname, r.label>> : r \in rows},
         raw        |-> IF overlay THEN RawCurves(self.raw_profiles, all_variables)
                        ELSE {},
         rawOf      |-> IF overlay THEN self.raw_profiles ELSE NoProfiles,
         hovermode  |-> IF overlay THEN "False" ELSE "x unified"]


\* a variant that returns the figure after showing it
ShowAndReturn(fig, show) == [shown |-> show, returned |-> fig]

\* lines 300-309
ShowOrReturn(fig, show) ==
    [shown |-> show, returned |-> IF show THEN NoFigure ELSE fig]

\* how plot ends: the TypeError of line 197, 211 or 220; the AttributeError
\* of assign on a result that is None (lines 203-212); the ValueError of ptp
\* on an empty column (line 226); or normally
PlotStatus(self, objects, geom, variables) ==
    LET merged == MergeResults(self, objects)
        filter == VariablesFilter(variables)
        all_variables == PlotVariables(merged.blocks, filter)
    IN  CASE ~GeomAccepted(geom) -> "TypeError"
          [] merged.status # "ok" -> merged.status
          [] ~filter.none /\ all_variables = {} -> "TypeError"
          [] RestrictRows(merged.blocks, all_variables, filter) = {} -> "ValueError"
          [] OTHER -> "ok"

(***************************************************************************)
(* The state machine                                                       *)
(***************************************************************************)
NoCall ==
    [op |-> "new", obj |-> "none", status |-> "ok", arg |-> NoArg, repeat |-> FALSE,
     geom |-> "none", interned |-> TRUE, variables |-> NoArg, objects |-> NoArg,
     show |-> FALSE, shown |-> FALSE, returned |-> NoFigure, chart |-> NoFigure]

RECURSIVE SeqsUpTo(_, _)
SeqsUpTo(S, n) ==
    IF n = 0 THEN {<<>>}
    ELSE SeqsUpTo(S, n - 1) \cup
         {Append(s, e) : s \in {t \in SeqsUpTo(S, n - 1) : Len(t) = n - 1}, e \in S}

\* what callers hand to fit: one object, a list/tuple, or a name
FitArguments ==
    {Object(x) : x \in Containers \cup {NotAProfile}}
    \cup {List(s) : s \in SeqsUpTo(Containers \cup {NotAProfile}, MaxList)}
    \cup {Str("cp1")}

\* ap1 is given every argument; its companion ap2, which is there to be
\* passed to plot, is built in one of two ways and fitted with one container
Studied == "ap1"

CompanionCalls ==
    { New("partial", NoArg, "numerical", NoArg, 25, TRUE, "None"),
      New("conditional", NoArg, "categorical", NoArg, 25, TRUE, "None") }

FitArgumentsOf(o) ==
    IF o = Studied THEN FitArguments ELSE {Object(x) : x \in Containers}

Init ==
    /\ objs \in {f \in [Objs -> ConstructorCalls] :
                    \A o \in Objs \ {Studied} : f[o] \in CompanionCalls}
    /\ fitted = [o \in Objs |-> NoArg]
    /\ last = NoCall

\* fit(ceteris_paribus).  It ends
\*   "TypeError"   at line 122 or 126, before anything is assigned;
\*   "HelperError" inside lines 129-136: an empty list/tuple leaves the tables
\*                 None, which no helper can read; and when no variable is
\*                 suitable the helpers of checks.py may raise or may go on
\*                 with an empty table (helperRaises), after line 115 ran;
\*   "ok"          after lines 138 and 141.
Fit(o, ceteris_paribus, helperRaises) ==
    LET self == objs[o]
        got == Gather(ceteris_paribus)
        raw == RawProfilesAfterGather(self, ceteris_paribus)
        status ==
            CASE got.raised -> "TypeError"
              [] got.none -> "HelperError"
              [] SuitableVariables(self, got.profiles) = {} /\ helperRaises -> "HelperError"
              [] OTHER -> "ok"
    IN  /\ last = NoCall
        /\ helperRaises =>
              (~got.raised /\ ~got.none /\ SuitableVariables(self, got.profiles) = {})
        /\ objs' = [objs EXCEPT ![o] =
                       IF status = "ok"
                       THEN FitWrites(self, FitResult(self, got.profiles),
                                      MeanPrediction(got.profiles, got.observations), raw)
                       ELSE FitWrites(self, self.result, self.mean_prediction, raw)]
        /\ fitted' = IF status = "ok" THEN [fitted EXCEPT ![o] = ceteris_paribus]
                     ELSE fitted
        /\ last' = [NoCall EXCEPT !.op = "fit", !.obj = o, !.status = status,
                                  !.arg = ceteris_paribus,
                                  !.repeat = (fitted[o] = ceteris_paribus)]

Plot(o, objects, geom, interned, variables, show) ==
    LET self == objs[o]
        status == PlotStatus(self, objects, geom, variables)
        merged == MergeResults(self, objects)
        filter == VariablesFilter(variables)
        all_variables == PlotVariables(merged.blocks, filter)
        rows == RestrictRows(merged.blocks, all_variables, filter)
        fig == BuildFigure(self, rows, all_variables, IsXNumeric(merged.blocks),
                           geom, interned)
        out == IF status = "ok" THEN ShowOrReturn(fig, show)
               ELSE [shown |-> FALSE, returned |-> NoFigure]
    IN  /\ last = NoCall
        /\ last' = [NoCall EXCEPT !.op = "plot", !.obj = o, !.status = status,
                                  !.geom = geom, !.interned = interned,
                                  !.variables = variables, !.objects = objects,
                                  !.show = show, !.shown = out.shown,
                                  !.returned = out.returned,
                                  !.chart = IF status = "ok" THEN fig ELSE NoFigure]
        /\ UNCHANGED <<objs, fitted>>

\* what callers hand to plot
PlotObjects(o) ==
    {NoArg} \cup {Object(x) : x \in (Objs \ {o})}
    \cup {List(<<x>>) : x \in (Objs \ {o})}
    \cup {List(<<x, NotAProfile>>) : x \in (Objs \ {o})}

PlotGeoms == {"aggregates", "profiles", "lines"}

PlotFilters == {NoArg, Str("a"), List(<<"c", "z">>), List(<<"z">>)}

\* the caller has taken the outcome of the call (the module is synchronous
\* and single-threaded: one call at a time)
Return ==
    /\ last # NoCall
    /\ last' = NoCall
    /\ UNCHANGED <<objs, fitted>>

Next ==
    \/ \E o \in Objs, helperRaises \in BOOLEAN :
          \E cp \in FitArgumentsOf(o) : Fit(o, cp, helperRaises)
    \/ \E o \in Objs, geom \in PlotGeoms, interned \in BOOLEAN, show \in BOOLEAN :
          \E objects \in PlotObjects(o), variables \in PlotFilters :
              /\ (geom # "profiles" => interned)
              /\ Plot(o, objects, geom, interned, variables, show)
    \/ Return

Spec == Init /\ [][Next]_vars

(***************************************************************************)
(* Properties                                                              *)
(***************************************************************************)
FitReturned == last.op = "fit" /\ last.status = "ok"

PlotReturned == last.op = "plot" /\ last.status = "ok"

IsSingleContainer(arg) == arg.kind = "object" /\ arg.items[1] \in Containers

IsListOfSeveral(arg) == arg.kind = "list" /\ Len(arg.items) >= 2

HasForeignElement(arg) ==
    arg.kind = "list" /\ \E k \in DOMAIN arg.items : arg.items[k] \notin Containers

ResultFields(self) ==
    <<self.result, self.mean_prediction, self.raw_profiles>>

\* C1: after any sequence of fits, raw_profiles is present if the last fit
\* that returned was given a single container, and None if it was given a
\* list/tuple of several containers.
C1_RawProfilesFollowLastFit ==
    \A o \in Objs :
        /\ IsSingleContainer(fitted[o]) => objs[o].raw_profiles # NoProfiles
        /\ IsListOfSeveral(fitted[o]) => objs[o].raw_profiles = NoProfiles

\* C2: fit ends in a TypeError when its argument is a list/tuple holding an
\* element, at any position, that is not a container, and when it is neither
\* a container nor a list/tuple; it does not return.
C2_ForeignInputRaisesTypeError ==
    (/\ last.op = "fit"
     /\ \/ HasForeignElement(last.arg)
        \/ (last.arg.kind # "list" /\ ~IsSingleContainer(last.arg)))
    => last.status = "TypeError"

C2_Witness ==
    /\ last.op = "fit"
    /\ last.status = "TypeError"
    /\ last.arg.kind = "list"
    /\ Len(last.arg.items) = 2
    /\ last.arg.items[1] \in Containers
    /\ last.arg.items[2] \notin Containers

\* C3: a fit that ends in the input TypeError leaves result, mean_prediction
\* and raw_profiles of every object as they were before the call.
C3_FailedFitLeavesResultFields ==
    [][(last'.op = "fit" /\ last'.status = "TypeError")
       => \A o \in Objs : ResultFields(objs'[o]) = ResultFields(objs[o])]_vars

C3_Witness ==
    /\ last.op = "fit"
    /\ last.status = "TypeError"
    /\ HasForeignElement(last.arg)
    /\ last.arg.items[1] \in Containers
    /\ ~objs[last.obj].result.none
    /\ objs[last.obj].raw_profiles # NoProfiles

\* C4: a fit given the argument of the fit that returned before it leaves the
\* same result and mean_prediction; and two objects of the same configuration
\* whose last fits were given the same argument hold the same result and
\* mean_prediction, whatever was fitted on them before.
C4_FitIsIdempotent ==
    [][(last'.op = "fit" /\ last'.status = "ok")
       => LET o == last'.obj
          IN  /\ last'.repeat =>
                    /\ objs'[o].result = objs[o].result
                    /\ objs'[o].mean_prediction = objs[o].mean_prediction
              /\ \A p \in Objs :
                    (Config(objs'[p]) = Config(objs'[o]) /\ fitted'[p] = fitted'[o])
                    => /\ objs'[p].result = objs'[o].result
                       /\ objs'[p].mean_prediction = objs'[o].mean_prediction]_vars

C4_Witness ==
    /\ FitReturned
    /\ last.repeat
    /\ IsListOfSeveral(last.arg)
    /\ \E p \in Objs \ {last.obj} :
          /\ Config(objs[p]) = Config(objs[last.obj])
          /\ ~objs[p].result.none

\* C5: no call changes a configuration field of any object, and plot changes
\* no field at all, neither of the object plotted nor of those in `objects`.
C5_ConfigurationIsKept ==
    [][/\ \A o \in Objs : Config(objs'[o]) = Config(objs[o])
       /\ last'.op = "fit" => \A o \in Objs \ {last'.obj} : objs'[o] = objs[o]
       /\ last'.op = "plot" => objs' = objs]_vars

C5_Witness ==
    /\ PlotReturned
    /\ last.objects.kind = "list"
    /\ \A o \in Objs : fitted[o] # NoArg
    /\ IsListOfSeveral(fitted[Studied])

\* the variables of the result tables plot merges, when all of them exist
PlotParticipants ==
    {last.obj} \cup {last.objects.items[k] : k \in DOMAIN last.objects.items}

TablesMerge ==
    /\ PlotParticipants \subseteq Objs
    /\ \A p \in PlotParticipants : ~objs[p].result.none

AvailableVariables ==
    {r.vname : r \in UNION {objs[p].result.rows : p \in PlotParticipants \cap Objs}}

RequestedVariables ==
    {last.variables.items[k] : k \in DOMAIN last.variables.items}

NothingPlotted ==
    /\ ~last.shown
    /\ last.returned = NoFigure
    /\ last.chart = NoFigure

\* C6: plot ends in a TypeError, with no chart shown or returned, when geom is
\* neither 'aggregates' nor 'profiles', and when a variables filter shares no
\* variable with the merged result tables; with a filter that shares some,
\* the chart holds exactly the shared variables.
C6_PlotRejectsGeomAndDisjointFilter ==
    last.op = "plot" =>
        /\ last.geom \notin {"aggregates", "profiles"}
              => (last.status = "TypeError" /\ NothingPlotted)
        /\ (/\ last.geom \in {"aggregates", "profiles"}
            /\ TablesMerge
            /\ last.variables.kind # "none"
            /\ AvailableVariables \cap RequestedVariables = {})
              => (last.status = "TypeError" /\ NothingPlotted)
        /\ (last.status = "ok" /\ last.variables.kind # "none")
              => /\ last.chart.facets = AvailableVariables \cap RequestedVariables
                 /\ {t[1] : t \in last.chart.aggregates}
                        = AvailableVariables \cap RequestedVariables

C6_Witness ==
    /\ last.op = "plot"
    /\ last.status = "TypeError"
    /\ last.geom = "aggregates"
    /\ last.objects.kind = "object"
    /\ TablesMerge
    /\ AvailableVariables = {"a", "b", "c"}
    /\ RequestedVariables = {"z"}

\* C7: a plot that completes either shows the chart and returns None
\* (show=True) or returns the chart without showing it (show=False).
C7_ShowsOrReturns ==
    PlotReturned =>
        /\ last.shown # (last.returned # NoFigure)
        /\ last.show => (last.shown /\ last.returned = NoFigure)
        /\ ~last.show => (~last.shown /\ last.returned = last.chart
                          /\ last.chart # NoFigure)

C7_Witness ==
    /\ PlotReturned
    /\ ~last.show
    /\ last.returned.kind = "line"
    /\ last.returned.raw # {}

\* C8: a plot with geom='profiles' on an object that holds raw profiles puts
\* the raw curves under the aggregated ones and turns unified hover off; any
\* other plot holds the aggregated traces only, with hover 'x unified'; and
\* the raw curves are those of the argument of the last fit that returned.
C8_OverlayWhenRequested ==
    PlotReturned =>
        LET self == objs[last.obj]
            asked == last.geom = "profiles" /\ self.raw_profiles # NoProfiles
        IN  /\ asked => (last.chart.raw # {} /\ last.chart.hovermode = "False")
            /\ ~asked => (last.chart.raw = {} /\ last.chart.hovermode = "x unified")
            /\ last.chart.raw # {} =>
                  {fitted[last.obj].items[k] : k \in DOMAIN fitted[last.obj].items}
                      = {last.chart.rawOf}

RECURSIVE PooledSum(_)
PooledSum(items) ==
    IF items = <<>> THEN 0
    ELSE LET cp == Head(items)
             ids == {ObservationIds(cp)[k] : k \in DOMAIN ObservationIds(cp)}
             one[S \in SUBSET ids] ==
                 IF S = {} THEN 0
                 ELSE LET i == CHOOSE j \in S : TRUE
                      IN  Predict(Observation(i).a, Observation(i).b, Observation(i).c)
                          + one[S \ {i}]
         IN  one[ids] + PooledSum(Tail(items))

RECURSIVE PooledCount(_)
PooledCount(items) ==
    IF items = <<>> THEN 0
    ELSE Len(ObservationIds(Head(items))) + PooledCount(Tail(items))

\* C9: after a fit that returned, mean_prediction is the mean of the observed
\* predictions over the rows of the observation tables of all containers of
\* that call, pooled.
C9_MeanPredictionIsPooledMean ==
    FitReturned =>
        LET mp == objs[last.obj].mean_prediction
        IN  /\ ~mp.none
            /\ mp.d > 0
            /\ mp.n * PooledCount(last.arg.items) = mp.d * PooledSum(last.arg.items)

C9_Witness ==
    /\ FitReturned
    /\ last.arg = List(<<"cp1", "cp2">>)
    /\ objs[last.obj].mean_prediction.d = 3

\* the predictions of the bucket (v, x) of a container: per observation, the
\* prediction with v set to x
BucketPredictions(cp, v, x) ==
    [i \in {ObservationIds(cp)[k] : k \in DOMAIN ObservationIds(cp)} |->
        Predict(IF v = "a" THEN x ELSE Observation(i).a,
                IF v = "b" THEN x ELSE Observation(i).b,
                IF v = "c" THEN x ELSE Observation(i).c)]

RECURSIVE SumOver(_, _)
SumOver(f, S) ==
    IF S = {} THEN 0
    ELSE LET i == CHOOSE j \in S : TRUE IN f[i] + SumOver(f, S \ {i})

EffectiveVariables(self) ==
    {v \in Features :
        /\ self.variables.none \/ v \in self.variables.names
        /\ (self.variable_type = "numerical") <=> (v \in NumericColumns)}

\* C10: for a single container, mode 'partial' and no grouping, the result
\* holds one row per (variable, value) bucket of the effective variables, with
\* the mean of the predictions of the bucket, and no other row.
C10_PartialResultIsBucketMean ==
    (/\ FitReturned
     /\ IsSingleContainer(last.arg)
     /\ objs[last.obj].type = "partial"
     /\ objs[last.obj].groups.none)
    => LET self == objs[last.obj]
           cp == last.arg.items[1]
           rows == self.result.rows
       IN  /\ ~self.result.none
           /\ \A r \in rows :
                 /\ r.vname \in EffectiveVariables(self)
                 /\ r.x \in Grid(r.vname)
                 /\ LET f == BucketPredictions(cp, r.vname, r.x)
                    IN  r.yhat.n * Cardinality(DOMAIN f)
                            = r.yhat.d * SumOver(f, DOMAIN f)
           /\ \A v \in EffectiveVariables(self) : \A x \in Grid(v) :
                 Cardinality({r \in rows : r.vname = v /\ r.x = x}) = 1

C10_Witness ==
    /\ FitReturned
    /\ last.arg = Object("cp1")
    /\ objs[last.obj].type = "partial"
    /\ objs[last.obj].groups.none
    /\ \E r \in objs[last.obj].result.rows : r.yhat.d = 2
    /\ {r.vname : r \in objs[last.obj].result.rows} = {"a", "b"}

====
